---- MODULE Spec2Model ----
(***************************************************************************)
(* Incremental face clustering of TrinetraGuard-backend-local.             *)
(*                                                                         *)
(* Two script variants are modelled as state machines:                     *)
(*   "clean" : src/python/analyze_video_clean.py, analyze_video            *)
(*   "final" : src/python/analyze_video_final.py, analyze_video            *)
(*                                                                         *)
(* The OpenCV calls (frame decoding, Haar detection, the pixel metrics     *)
(* behind the similarity and the quality score) are inputs of the model:   *)
(* each step draws their outcome from a small set.  Similarities are in    *)
(* hundredths (0.75 is 75); a timestamp string "D day(s), H:MM:SS" is the  *)
(* tuple <<D, H, MM, SS>> of the numbers it prints.                         *)
(*                                                                         *)
(* The other scripts each have a specification of their own:               *)
(*   SpecTime    : the timestamp string, character by character            *)
(*   SpecFaces   : src/api/python/face_detect.py and                       *)
(*                 src/backend/python/face_detect.py on one video          *)
(*   SpecSearch  : src/api/python/face_search.py                           *)
(*   SpecCleanup : src/backend/utils/cleanup.py                            *)
(***************************************************************************)
EXTENDS Integers, Sequences, FiniteSets, TLC

VARIABLES
    variant,          \* which script runs: "clean" or "final"
    fps,              \* cap.get(cv2.CAP_PROP_FPS)
    total_frames,     \* int(cap.get(cv2.CAP_PROP_FRAME_COUNT))
    frame_count,      \* frames read so far
    pending,          \* faces of the current frame the for-loop has not reached yet
    pc,               \* "run" (the frame loop), "emit" (final's output loop),
                      \* "done" (result printed), "raised" (uncaught exception)
    detected_faces,   \* clean: the cluster list
    unique_faces,     \* final: the cluster list
    face_timestamps,  \* final: cluster index -> list of timestamps
    result,           \* the emitted result, NoResult before
    obs,              \* the last face of the frame the for-loop handled, with what
                      \* it was compared to (none yet: kind "none")
    stream,           \* the input video: 0 any short video; p > 0 the crowd video p;
                      \* Sparse a long video of few faces; Empty a video too
                      \* short to be sampled
    seen,             \* faces the detector has returned so far
    hist,             \* clean: what the accepted faces so far had in common, and
                      \* the cluster list as it was before the final sort
    cmp,              \* two patches as OpenCV measures them, and what
                      \* calculate_face_similarity returned for them each way
    timing,           \* an elapsed time in tenths of a second, and the
                      \* timestamp string made of it (none yet: NoText)
    video,            \* the video given to both face_detect.py scripts: whether
                      \* it opens, and the encodings of the faces of each
                      \* extracted frame
    api,              \* the FaceProcessor of src/api/python/face_detect.py,
                      \* with the lines printed and the result of main
    backend,          \* the FaceProcessor of src/backend/python/face_detect.py,
                      \* likewise
    search,           \* face_search.py: its arguments, the stored files, the
                      \* position of the loop of compare_faces, matched_faces
                      \* and the result of main
    disk,             \* the directories "videos" and "faces" cleanup.py works on
    cleanup           \* cleanup.py: its arguments, where main is, the entries
                      \* of the directory not yet visited, the lines printed,
                      \* and the directories as they were at the start

\* the state of the programs other than analyze_video
toolVars == <<timing, video, api, backend, search, disk, cleanup>>

vars == <<variant, fps, total_frames, frame_count, pending, pc, detected_faces,
          unique_faces, face_timestamps, result, obs, stream, seen, hist,
          cmp, toolVars>>

-----------------------------------------------------------------------------
(* Program constants *)

DUP_THRESHOLD == 75        \* clean: similarity > 0.75
MIN_QUALITY == 15          \* clean: quality_score < 15 is rejected
MAX_FACES_CLEAN == 25      \* clean: min(len(detected_faces), 25)
MAX_FACES_FINAL == 20      \* final: min(len(unique_faces), 20)
FINAL_THRESHOLD == 60      \* final: are_faces_similar(..., threshold=0.6)
SAMPLE_CLEAN == 5          \* clean: every 5th frame
SAMPLE_FINAL == 10         \* final: sample_rate = 10
PROGRESS_CLEAN == 10       \* clean: processed_frames % 10 == 0
PROGRESS_FINAL == 30       \* final: frame_count % (sample_rate * 30) == 0

(* Bounds of the model *)

MaxFrames == 20            \* frames of a short video
MaxFacesPerFrame == 2      \* faces the detector returns for one frame (short video)
MaxFaces == 3              \* faces the detector returns in a whole short video
CapFrames == 12            \* frames of a crowd video
CapFacesPerFrame == 27     \* faces in the crowd frame of a crowd video
NumStreams == 6            \* crowd videos differ in the qualities of their people
LongFrames == 300          \* frames of a long video of few faces
MaxSparseFaces == 2        \* faces the detector returns in such a video

Sparse == -1               \* stream: the long video of few faces
Empty == -2                \* stream: the video of fewer frames than one sample

NoImage == -1              \* the stored representative could not be read back
NoResult == [total_people |-> -1, faces |-> <<>>]

SimOutcomes == {NoImage, 75, 80, 90}
SimOutcomesFinal == {0, 60, 90}
QualityLevels == {10, 15, 30}
FpsSet == {0, 5, 10}

-----------------------------------------------------------------------------
(* Timestamps *)

\* str(timedelta(seconds=n)): "H:MM:SS", with "D day(s), " in front from one day on
TimedeltaStr(n) ==
    <<n \div 86400, (n % 86400) \div 3600, (n \div 60) % 60, n % 60>>

\* int(frame_count / fps) then str(timedelta(...)); fps > 0 here
format_timestamp(fc, f) == TimedeltaStr(fc \div f)

\* "%d" and "%02d" of a natural number, as the sequence of its characters
Digits == <<"0", "1", "2", "3", "4", "5", "6", "7", "8", "9">>

RECURSIVE Decimal(_)
Decimal(n) ==
    IF n < 10 THEN <<Digits[n + 1]>>
    ELSE Append(Decimal(n \div 10), Digits[(n % 10) + 1])

TwoDigits(n) == IF n < 10 THEN <<"0">> \o Decimal(n) ELSE Decimal(n)

\* int(seconds) of a non-negative elapsed time given in tenths of a second
Truncate(tenths) == tenths \div 10

\* str(timedelta(seconds=n)), character by character: "%d:%02d:%02d", after
\* "%d day, " or "%d days, " when the days are not zero
TimedeltaText(n) ==
    LET t == TimedeltaStr(n)
        days == IF t[1] = 0 THEN <<>>
                ELSE Decimal(t[1]) \o <<" ", "d", "a", "y">>
                       \o (IF t[1] = 1 THEN <<>> ELSE <<"s">>) \o <<",", " ">>
    IN  days \o Decimal(t[2]) \o <<":">> \o TwoDigits(t[3]) \o <<":">>
             \o TwoDigits(t[4])

NoText == <<>>
NoTiming == [elapsed |-> 0, timestamp |-> NoText]

\* the elapsed times formatted: every tenth up to MaxTenths, then the hour,
\* ten hours, the last tenth of the first day, one day and more
MaxTenths == 100
ElapsedTimes ==
    0..MaxTenths \cup {36000, 359999, 360000, 863999, 864000, 900610, 1728000}

\* timestamp = str(timedelta(seconds=int(timestamp_seconds)))
FormatTimestamp ==
    /\ timing.timestamp = NoText
    /\ timing' = [timing EXCEPT
                     !.timestamp = TimedeltaText(Truncate(timing.elapsed))]
    /\ UNCHANGED <<variant, fps, total_frames, frame_count, pending, pc,
                   detected_faces, unique_faces, face_timestamps, result, obs,
                   stream, seen, hist, cmp, video, api, backend, search,
                   disk, cleanup>>

\* chronological order of two timestamp strings
TsBefore(a, b) ==
    \/ a[1] < b[1]
    \/ a[1] = b[1] /\ a[2] < b[2]
    \/ a[1] = b[1] /\ a[2] = b[2] /\ a[3] < b[3]
    \/ a[1] = b[1] /\ a[2] = b[2] /\ a[3] = b[3] /\ a[4] < b[4]

SeqToSet(s) == {s[i] : i \in 1..Len(s)}

Min(a, b) == IF a < b THEN a ELSE b

-----------------------------------------------------------------------------
(* analyze_video_clean.py: calculate_face_similarity *)

SIZE == 150                \* size = (150, 150)
W_TEMPLATE == 35           \* max_similarity * 0.35
W_HIST == 25               \* hist_similarity * 0.25
W_SSIM == 20               \* ssim_similarity * 0.20
W_EDGE == 15               \* edge_similarity * 0.15
W_FEATURE == 5             \* feature_similarity * 0.05

\* for scale in [0.8, 0.9, 1.0, 1.1, 1.2], in hundredths
Scales == {80, 90, 100, 110, 120}

\* side of cv2.resize(gray2, None, fx=scale, fy=scale)
ScaledSide(scale) == (SIZE * scale) \div 100

\* the scales whose template fits into the 150 x 150 image
MatchedScales == {scale \in Scales : ScaledSide(scale) <= SIZE}

Max(S) == CHOOSE x \in S : \A y \in S : y <= x

\* What OpenCV measures on the two patches 1 and 2, in hundredths:
\* tm[<<x, y, scale>>] is np.max(cv2.matchTemplate(gray_x, gray_y rescaled))
\* (at scale 1.0 image and template have one size and the result is the one
\* correlation coefficient of the two, the same both ways); hist, ssim, edge
\* and feat are computed from the pair by formulas in which the two patches
\* change places freely; broken: an OpenCV call raises (a patch is no image)
TmKeys ==
    {<<x, y, scale>> : x \in {1, 2}, y \in {1, 2}, scale \in MatchedScales}

TmLevels == {40, 90}

Measurements ==
    {m \in [broken : BOOLEAN,
            tm : [{k \in TmKeys : k[1] # k[2]} -> TmLevels],
            hist : {50, 90}, ssim : {70, 90}, edge : {80}, feat : {0}] :
        m.tm[<<1, 2, 100>>] = m.tm[<<2, 1, 100>>]}

\* the combined similarity of face1 and face2 in ten-thousandths: gray1 is the
\* image and the rescaled gray2 the template; except: return 0.0
calculate_face_similarity(m, face1, face2) ==
    IF m.broken THEN 0
    ELSE LET max_similarity ==
                 Max({0} \cup {m.tm[<<face1, face2, scale>>] :
                                  scale \in MatchedScales})
         IN  max_similarity * W_TEMPLATE + m.hist * W_HIST + m.ssim * W_SSIM
               + m.edge * W_EDGE + m.feat * W_FEATURE

NotCompared == -1
NoCmp == [m |-> CHOOSE m \in Measurements : TRUE,
          ab |-> NotCompared, ba |-> NotCompared]

\* similarity = calculate_face_similarity(a, b)
CompareAB ==
    /\ cmp.ab = NotCompared
    /\ cmp' = [cmp EXCEPT !.ab = calculate_face_similarity(cmp.m, 1, 2)]
    /\ UNCHANGED <<toolVars, variant, fps, total_frames, frame_count, pending,
                   pc, detected_faces, unique_faces, face_timestamps, result,
                   obs, stream, seen, hist>>

\* similarity = calculate_face_similarity(b, a)
CompareBA ==
    /\ cmp.ba = NotCompared
    /\ cmp' = [cmp EXCEPT !.ba = calculate_face_similarity(cmp.m, 2, 1)]
    /\ UNCHANGED <<toolVars, variant, fps, total_frames, frame_count, pending,
                   pc, detected_faces, unique_faces, face_timestamps, result,
                   obs, stream, seen, hist>>

-----------------------------------------------------------------------------
(* analyze_video_clean.py: the quality gate *)

MIN_ASPECT == 70           \* aspect_ratio < 0.7, in hundredths
MAX_ASPECT == 150          \* aspect_ratio > 1.5
MIN_SIDE == 120            \* width < 120 or height < 120
MAX_SIDE == 450            \* width > 450 or height > 450
MIN_SKIN == 15             \* skin_ratio < 0.15
MAX_SKIN == 80             \* skin_ratio > 0.8
MAX_EDGES == 25            \* edge_density > 0.25
MIN_SYMMETRY == 30         \* symmetry < 0.3
MIN_EYES == 1              \* len(eyes) < 1

NaN == -1000               \* np.corrcoef of a half of one constant brightness

\* x < y for floats: False when x is nan
FloatLess(x, y) == x # NaN /\ x < y

\* A face patch frame[y:y+h, x:x+w] is what the function measures on it:
\* its shape, skin_ratio, edge_density and symmetry in hundredths, len(eyes),
\* and whether an OpenCV call on it raises (cv2.error: the eye cascade file is
\* not at its homebrew path, the patch is not an image)
GoodPatch ==
    [width |-> 200, height |-> 200, skin |-> 40, edges |-> 10,
     symmetry |-> 50, eyes |-> 2, broken |-> FALSE]

SmallPatch == [GoodPatch EXCEPT !.width = 119, !.height = 119]

FacePatches ==
    {GoodPatch, SmallPatch,
     \* every bound met exactly
     [GoodPatch EXCEPT !.width = 120, !.height = 120, !.skin = 15,
                       !.edges = 25, !.symmetry = 30, !.eyes = 1],
     [GoodPatch EXCEPT !.width = 450, !.height = 300, !.skin = 80],
     [GoodPatch EXCEPT !.width = 140],
     \* one bound missed
     [GoodPatch EXCEPT !.width = 451, !.height = 451],
     [GoodPatch EXCEPT !.width = 139],
     [GoodPatch EXCEPT !.width = 301],
     [GoodPatch EXCEPT !.skin = 14],
     [GoodPatch EXCEPT !.skin = 81],
     [GoodPatch EXCEPT !.edges = 26],
     [GoodPatch EXCEPT !.symmetry = 29],
     [GoodPatch EXCEPT !.eyes = 0],
     [GoodPatch EXCEPT !.broken = TRUE],
     \* a half of the patch is flat: the correlation is 0 / 0
     [GoodPatch EXCEPT !.symmetry = NaN],
     \* an empty patch, a box without height, a box without width
     [GoodPatch EXCEPT !.width = 0, !.height = 0],
     [GoodPatch EXCEPT !.height = 0],
     [GoodPatch EXCEPT !.width = 0]}

\* (mutant: the except branch accepts)
is_complete_human_face_FailOpen(face_img) ==
    IF face_img.broken \/ face_img.height = 0
    THEN TRUE
    ELSE ~ \/ 100 * face_img.width < MIN_ASPECT * face_img.height
           \/ 100 * face_img.width > MAX_ASPECT * face_img.height
           \/ face_img.width < MIN_SIDE \/ face_img.height < MIN_SIDE
           \/ face_img.width > MAX_SIDE \/ face_img.height > MAX_SIDE
           \/ face_img.skin < MIN_SKIN \/ face_img.skin > MAX_SKIN
           \/ face_img.edges > MAX_EDGES
           \/ FloatLess(face_img.symmetry, MIN_SYMMETRY)
           \/ face_img.eyes < MIN_EYES

\* try: ... the checks in the order of the function, each returning False;
\* except: return False (width / height with height == 0, a cv2.error)
is_complete_human_face(face_img) ==
    IF face_img.broken \/ face_img.height = 0
    THEN FALSE
    ELSE ~ \/ 100 * face_img.width < MIN_ASPECT * face_img.height
           \/ 100 * face_img.width > MAX_ASPECT * face_img.height
           \/ face_img.width < MIN_SIDE \/ face_img.height < MIN_SIDE
           \/ face_img.width > MAX_SIDE \/ face_img.height > MAX_SIDE
           \/ face_img.skin < MIN_SKIN \/ face_img.skin > MAX_SKIN
           \/ face_img.edges > MAX_EDGES
           \/ FloatLess(face_img.symmetry, MIN_SYMMETRY)
           \/ face_img.eyes < MIN_EYES

-----------------------------------------------------------------------------
(* analyze_video_clean.py: the duplicate scan, the fold and the ranking *)

\* The for-loop over detected_faces from index i on.  sims[i] is what
\* calculate_face_similarity(face_img, existing_img) returns for cluster i, or
\* NoImage when the file is missing or unreadable (no comparison is made).
\* Indices are 1-based; best_match_index 0 is Python's -1.
RECURSIVE ScanFrom(_, _, _, _)
ScanFrom(sims, i, best_idx, best_sim) ==
    IF i > Len(sims)
    THEN [is_duplicate |-> FALSE, best_match_index |-> best_idx,
          best_similarity |-> best_sim, compared |-> Len(sims)]
    ELSE IF sims[i] = NoImage
    THEN ScanFrom(sims, i + 1, best_idx, best_sim)
    ELSE LET better == sims[i] > best_sim
             bi == IF better THEN i ELSE best_idx
             bs == IF better THEN sims[i] ELSE best_sim
         IN  IF sims[i] > DUP_THRESHOLD
             THEN [is_duplicate |-> TRUE, best_match_index |-> bi,
                   best_similarity |-> bs, compared |-> i]
             ELSE ScanFrom(sims, i + 1, bi, bs)

\* (mutant: the scan starts at the second cluster)
FindDuplicate_SkipFirst(sims) == ScanFrom(sims, 2, 0, 0)

\* (mutant: the loop without its break; the best match over all clusters)
FindDuplicate_BestMatch(sims) ==
    LET readable == {i \in 1..Len(sims) : sims[i] # NoImage /\ sims[i] > 0}
        best == IF readable = {} THEN 0
                ELSE CHOOSE i \in readable :
                        \A j \in readable :
                           sims[j] < sims[i] \/ (sims[j] = sims[i] /\ i <= j)
    IN  [is_duplicate |-> \E i \in readable : sims[i] > DUP_THRESHOLD,
         best_match_index |-> best,
         best_similarity |-> IF best = 0 THEN 0 ELSE sims[best],
         compared |-> Len(sims)]

\* is_duplicate = False; best_match_index = -1; best_similarity = 0.0; the loop
FindDuplicate(sims) == ScanFrom(sims, 1, 0, 0)

\* (mutant: the append without the membership test)
AddTimestamp_Always(timestamps, ts) == Append(timestamps, ts)

\* (mutant: the list is assigned, not appended to)
AddTimestamp_Replace(timestamps, ts) ==
    IF ts \in SeqToSet(timestamps) THEN timestamps ELSE <<ts>>

\* if timestamp not in ...['timestamps']: ...['timestamps'].append(timestamp)
AddTimestamp(timestamps, ts) ==
    IF ts \in SeqToSet(timestamps) THEN timestamps ELSE Append(timestamps, ts)

\* (mutant: the new cluster is numbered len(detected_faces), not + 1)
FoldFace_ZeroBased(faces, scan, ts, quality) ==
    IF scan.is_duplicate
    THEN IF scan.best_match_index >= 1
         THEN [faces EXCEPT ![scan.best_match_index].timestamps =
                                AddTimestamp(@, ts)]
         ELSE faces
    ELSE Append(faces, [image |-> Len(faces),
                        timestamps |-> <<ts>>,
                        quality |-> quality])

\* (mutant: the new cluster starts without its timestamp)
FoldFace_NoTimestamp(faces, scan, ts, quality) ==
    IF scan.is_duplicate
    THEN IF scan.best_match_index >= 1
         THEN [faces EXCEPT ![scan.best_match_index].timestamps =
                                AddTimestamp(@, ts)]
         ELSE faces
    ELSE Append(faces, [image |-> Len(faces) + 1,
                        timestamps |-> <<>>,
                        quality |-> quality])

\* (mutant: a duplicate stamps every cluster)
FoldFace_StampAll(faces, scan, ts, quality) ==
    IF scan.is_duplicate
    THEN IF scan.best_match_index >= 1
         THEN [i \in 1..Len(faces) |->
                  [faces[i] EXCEPT !.timestamps = AddTimestamp(@, ts)]]
         ELSE faces
    ELSE Append(faces, [image |-> Len(faces) + 1,
                        timestamps |-> <<ts>>,
                        quality |-> quality])

\* (mutant: a duplicate leaves its quality score in the cluster)
FoldFace_LastQuality(faces, scan, ts, quality) ==
    IF scan.is_duplicate
    THEN IF scan.best_match_index >= 1
         THEN [faces EXCEPT ![scan.best_match_index].timestamps =
                                AddTimestamp(@, ts),
                            ![scan.best_match_index].quality = quality]
         ELSE faces
    ELSE Append(faces, [image |-> Len(faces) + 1,
                        timestamps |-> <<ts>>,
                        quality |-> quality])

\* (mutant: the new cluster is assigned to the list, not appended)
FoldFace_Overwrite(faces, scan, ts, quality) ==
    IF scan.is_duplicate
    THEN IF scan.best_match_index >= 1
         THEN [faces EXCEPT ![scan.best_match_index].timestamps =
                                AddTimestamp(@, ts)]
         ELSE faces
    ELSE <<[image |-> Len(faces) + 1,
            timestamps |-> <<ts>>,
            quality |-> quality]>>

\* the if is_duplicate / else of one accepted face
FoldFace(faces, scan, ts, quality) ==
    IF scan.is_duplicate
    THEN IF scan.best_match_index >= 1
         THEN [faces EXCEPT ![scan.best_match_index].timestamps =
                                AddTimestamp(@, ts)]
         ELSE faces
    ELSE Append(faces, [image |-> Len(faces) + 1,
                        timestamps |-> <<ts>>,
                        quality |-> quality])

\* (mutant: equal qualities are put in front, as an unstable sort may)
RECURSIVE InsertByQuality_Unstable(_, _)
InsertByQuality_Unstable(x, sorted) ==
    IF sorted = <<>> THEN <<x>>
    ELSE IF Head(sorted).quality > x.quality
         THEN <<Head(sorted)>> \o InsertByQuality_Unstable(x, Tail(sorted))
         ELSE <<x>> \o sorted

\* list.sort(key=quality, reverse=True): stable, so equal qualities keep the
\* list's order
RECURSIVE InsertByQuality(_, _)
InsertByQuality(x, sorted) ==
    IF sorted = <<>> THEN <<x>>
    ELSE IF Head(sorted).quality >= x.quality
         THEN <<Head(sorted)>> \o InsertByQuality(x, Tail(sorted))
         ELSE <<x>> \o sorted

\* (mutant: the sort is left out)
SortByQuality_None(faces) == faces

RECURSIVE SortByQuality(_)
SortByQuality(faces) ==
    IF faces = <<>> THEN <<>>
    ELSE InsertByQuality(faces[Len(faces)],
                         SortByQuality(SubSeq(faces, 1, Len(faces) - 1)))

\* (mutant: the slice is left out)
CapFaces_None(faces, max_faces) == faces

\* detected_faces[:min(len(detected_faces), 25)]
CapFaces(faces, max_faces) == SubSeq(faces, 1, Min(Len(faces), max_faces))

\* the result dictionary built from the sorted, capped list
BuildResult(faces) ==
    [total_people |-> Len(faces),
     faces |-> [i \in 1..Len(faces) |->
                    [image |-> faces[i].image,
                     timestamps |-> faces[i].timestamps]]]

-----------------------------------------------------------------------------
(* The input video *)

NoTs == <<>>
NoScan == [is_duplicate |-> FALSE, best_match_index |-> 0,
           best_similarity |-> 0, compared |-> 0]
NoObs == [kind |-> "none", face |-> GoodPatch, quality |-> 0, ts |-> NoTs,
          sims |-> <<>>, scan |-> NoScan, before |-> <<>>, log |-> "none"]

NoHist == [tss |-> <<>>, allAbove |-> TRUE, allAtLeast |-> TRUE, store |-> <<>>]

\* every timestamp recorded in some cluster
AllTimestamps(faces) ==
    UNION {SeqToSet(faces[i].timestamps) : i \in 1..Len(faces)}

\* one more accepted face: its timestamp, and was every face after the first
\* above (at least at) the threshold against cluster 1 (kept for short videos)
NoteFace(h, faces, sims, ts) ==
    IF stream # 0 THEN h ELSE
    [h EXCEPT !.tss = Append(@, ts),
              !.allAbove = @ /\ (faces = <<>> \/ sims[1] > DUP_THRESHOLD),
              !.allAtLeast = @ /\ (faces = <<>> \/ sims[1] >= DUP_THRESHOLD)]

\* frames cap.read() returns before it fails (a shorter video is one whose
\* last frames show no face)
FrameBound ==
    CASE stream = 0 -> MaxFrames
      [] stream = Sparse -> LongFrames
      [] stream = Empty -> SAMPLE_CLEAN - 1
      [] OTHER -> CapFrames

\* CAP_PROP_FRAME_COUNT: the number of frames, or 0 when the container does
\* not tell (the short and the crowd videos end before any progress line)
FrameCounts ==
    IF stream \in {Sparse, Empty} THEN {0, FrameBound} ELSE {FrameBound}

\* len(faces) the detector may return for a sampled frame
\* (a crowd video shows its crowd in the first frame both scripts sample, and
\* at most one face in any other frame; a long video of few faces shows them
\* before that frame has passed)
FacesInFrame ==
    CASE stream = 0 -> 0..Min(MaxFacesPerFrame, MaxFaces - seen)
      [] stream = Sparse ->
            IF frame_count' <= SAMPLE_FINAL
            THEN 0..Min(1, MaxSparseFaces - seen) ELSE {0}
      [] stream = Empty -> {0}
      [] OTHER -> IF frame_count' = SAMPLE_FINAL THEN {CapFacesPerFrame}
                  ELSE {0, 1}

\* quality score of the k-th distinct person of crowd video p
StreamQuality(p, k) == MIN_QUALITY + ((p * k) % 5)

\* quality scores an accepted face may get when n clusters exist
AcceptedQualities(n) ==
    IF stream > 0 THEN {StreamQuality(stream, n + 1)}
    ELSE {q \in QualityLevels : q >= MIN_QUALITY}

RejectedQualities == {q \in QualityLevels : q < MIN_QUALITY}

\* the patches the detector's boxes cut out (of every kind in the long video
\* of few faces, of two kinds in the others)
Patches == IF stream = Sparse THEN FacePatches ELSE {GoodPatch, SmallPatch}

\* the faces of a video that is not short: a person not seen before (or a
\* comparison that raised: 0.0); person 1 again; a face that
\* resembles person 1 and, more so, persons 2 and 3
LongVectors(n) ==
    {[i \in 1..n |-> 0],
     [i \in 1..n |-> IF i = 1 THEN 90 ELSE 0],
     [i \in 1..n |-> IF i = 1 THEN 80 ELSE IF i <= 3 THEN 90 ELSE 0]}

\* outcomes of comparing a face with the n stored representatives: anything in
\* a short video
SimVectors(n) ==
    IF stream = 0 THEN [1..n -> SimOutcomes] ELSE LongVectors(n)

SimVectorsFinal(n) ==
    IF stream = 0 THEN [1..n -> SimOutcomesFinal] ELSE LongVectors(n)

\* The face loop of a sampled frame is over and the progress line is due with
\* total_frames == 0.  clean: processed_frames % 10 == 0, where
\* processed_frames is frame_count // 5; final: frame_count % 300 == 0
ProgressRaises ==
    /\ pending = 0 /\ frame_count > 0 /\ total_frames = 0
    /\ IF variant = "clean"
       THEN (frame_count \div SAMPLE_CLEAN) % PROGRESS_CLEAN = 0
       ELSE frame_count % (SAMPLE_FINAL * PROGRESS_FINAL) = 0

-----------------------------------------------------------------------------
(* analyze_video_clean.py: the actions *)

\* while True: cap.read(); frame_count += 1; if frame_count % 5 != 0: continue
\* The four frames the loop reads and skips and the fifth it samples are one
\* step: faces = face_cascade.detectMultiScale(...)
\* (the step before it ended with the progress line of the frame before)
CleanSampleFrame ==
    /\ variant = "clean" /\ pc = "run" /\ pending = 0
    /\ ~ProgressRaises
    /\ frame_count + SAMPLE_CLEAN <= FrameBound
    /\ frame_count' = frame_count + SAMPLE_CLEAN
    /\ \E n \in FacesInFrame : pending' = n /\ seen' = seen + n
    /\ obs' = NoObs
    /\ UNCHANGED <<toolVars, cmp, variant, fps, total_frames, pc, detected_faces, unique_faces,
                   face_timestamps, result, stream, hist>>

\* progress = (frame_count / total_frames) * 100 with total_frames == 0:
\* ZeroDivisionError, which nothing catches
CleanProgressZero ==
    /\ variant = "clean" /\ pc = "run"
    /\ ProgressRaises
    /\ pc' = "raised"
    /\ UNCHANGED <<toolVars, cmp, variant, fps, total_frames, frame_count, pending,
                   detected_faces, unique_faces, face_timestamps, result, obs,
                   stream, seen, hist>>

\* if not is_complete_human_face(face_img): continue
\* if quality_score < 15: log "Face rejected: quality score ..."; continue
CleanRejectFace ==
    /\ variant = "clean" /\ pc = "run" /\ pending > 0
    /\ \E face_img \in Patches :
          IF is_complete_human_face(face_img)
          THEN \E q \in RejectedQualities :
                  obs' = [NoObs EXCEPT !.kind = "rejected", !.face = face_img,
                                       !.quality = q, !.before = detected_faces,
                                       !.log = "rejected"]
          ELSE obs' = [NoObs EXCEPT !.kind = "rejected", !.face = face_img,
                                    !.before = detected_faces]
    /\ pending' = pending - 1
    /\ UNCHANGED <<toolVars, cmp, variant, fps, total_frames, frame_count, pc, detected_faces, unique_faces,
                   face_timestamps, result, stream, seen, hist>>

\* a face passes the gate; timestamp_seconds = frame_count / fps with
\* fps == 0: ZeroDivisionError, which nothing catches
CleanFpsZero ==
    /\ variant = "clean" /\ pc = "run" /\ pending > 0
    /\ fps = 0
    /\ \E face_img \in Patches, q \in AcceptedQualities(Len(detected_faces)) :
          /\ is_complete_human_face(face_img)
          /\ obs' = [NoObs EXCEPT !.kind = "raised", !.face = face_img,
                                  !.quality = q, !.before = detected_faces]
    /\ pc' = "raised"
    /\ UNCHANGED <<toolVars, cmp, variant, fps, total_frames, frame_count, pending, detected_faces,
                   unique_faces, face_timestamps, result, stream, seen, hist>>

\* an accepted face: timestamp, duplicate scan, then fold or append
CleanFoldFace ==
    /\ variant = "clean" /\ pc = "run" /\ pending > 0
    /\ fps > 0
    /\ \E face_img \in Patches,
          q \in AcceptedQualities(Len(detected_faces)),
          sims \in SimVectors(Len(detected_faces)) :
          LET ts == format_timestamp(frame_count, fps)
              scan == FindDuplicate(sims)
          IN  /\ is_complete_human_face(face_img)
              /\ detected_faces' = FoldFace(detected_faces, scan, ts, q)
              /\ obs' = [kind |-> IF scan.is_duplicate THEN "dup" ELSE "new",
                         face |-> face_img,
                         quality |-> q, ts |-> ts, sims |-> sims,
                         scan |-> scan, before |-> detected_faces,
                         log |-> IF scan.is_duplicate THEN "duplicate"
                                 ELSE "new person"]
              /\ hist' = NoteFace(hist, detected_faces, sims, ts)
    /\ pending' = pending - 1
    /\ UNCHANGED <<toolVars, cmp, variant, fps, total_frames, frame_count, pc, unique_faces,
                   face_timestamps, result, stream, seen>>

\* (mutant: total_people counts the clusters before the cap)
RankClean_CountCreated(faces) ==
    [BuildResult(CapFaces(SortByQuality(faces), MAX_FACES_CLEAN))
        EXCEPT !.total_people = Len(faces)]

\* the sort, the cap and the result, in one piece
RankClean(faces) == BuildResult(CapFaces(SortByQuality(faces), MAX_FACES_CLEAN))

\* cap.read() returns no frame: break, sort, cap, emit
CleanFinish ==
    /\ variant = "clean" /\ pc = "run" /\ pending = 0
    /\ ~ProgressRaises
    /\ frame_count + SAMPLE_CLEAN > FrameBound
    /\ detected_faces' = CapFaces(SortByQuality(detected_faces), MAX_FACES_CLEAN)
    /\ result' = RankClean(detected_faces)
    /\ hist' = [hist EXCEPT !.store = detected_faces]
    /\ pc' = "done"
    /\ UNCHANGED <<toolVars, cmp, variant, fps, total_frames, frame_count, pending, unique_faces,
                   face_timestamps, obs, stream, seen>>

-----------------------------------------------------------------------------
(* analyze_video_final.py *)

\* for i, existing_face in enumerate(unique_faces):
\*     if are_faces_similar(face_image, existing_face['image']): ...; break
\* the 1-based index of the first cluster whose correlation is > 0.6, 0 if none
RECURSIVE FirstSimilar(_, _)
FirstSimilar(sims, i) ==
    IF i > Len(sims) THEN 0
    ELSE IF sims[i] > FINAL_THRESHOLD THEN i
    ELSE FirstSimilar(sims, i + 1)

\* list(set(timestamps)): the distinct entries, in an order the hash decides
Orderings(timestamps) ==
    LET S == SeqToSet(timestamps)
    IN  {f \in [1..Cardinality(S) -> S] :
            \A i, j \in 1..Cardinality(S) : i # j => f[i] # f[j]}

\* the nine frames the loop reads and skips and the tenth it samples:
\* detectMultiScale, then timestamp_seconds = frame_count / fps
FinalSampleFrame ==
    /\ variant = "final" /\ pc = "run" /\ pending = 0
    /\ ~ProgressRaises
    /\ frame_count + SAMPLE_FINAL <= FrameBound
    /\ fps > 0
    /\ frame_count' = frame_count + SAMPLE_FINAL
    /\ \E n \in FacesInFrame : pending' = n /\ seen' = seen + n
    /\ obs' = NoObs
    /\ UNCHANGED <<toolVars, cmp, variant, fps, total_frames, pc, detected_faces, unique_faces,
                   face_timestamps, result, stream, hist>>

\* progress = (frame_count / total_frames) * 100 with total_frames == 0
FinalProgressZero ==
    /\ variant = "final" /\ pc = "run"
    /\ ProgressRaises
    /\ pc' = "raised"
    /\ UNCHANGED <<toolVars, cmp, variant, fps, total_frames, frame_count, pending,
                   detected_faces, unique_faces, face_timestamps, result, obs,
                   stream, seen, hist>>

\* the same with fps == 0: ZeroDivisionError, which nothing catches
FinalFpsZero ==
    /\ variant = "final" /\ pc = "run" /\ pending = 0
    /\ ~ProgressRaises
    /\ frame_count + SAMPLE_FINAL <= FrameBound
    /\ fps = 0
    /\ frame_count' = frame_count + SAMPLE_FINAL
    /\ pc' = "raised"
    /\ UNCHANGED <<toolVars, cmp, variant, fps, total_frames, pending, detected_faces, unique_faces,
                   face_timestamps, result, obs, stream, seen, hist>>

\* one face of the frame (minSize=(80, 80) keeps w < 80 or h < 80 from happening)
FinalFoldFace ==
    /\ variant = "final" /\ pc = "run" /\ pending > 0
    /\ \E sims \in SimVectorsFinal(Len(unique_faces)) :
          LET ts == format_timestamp(frame_count, fps)
              m == FirstSimilar(sims, 1)
              n == Len(unique_faces)
          IN  /\ IF m >= 1
                 THEN /\ face_timestamps' =
                             [face_timestamps EXCEPT ![m] = Append(@, ts)]
                      /\ UNCHANGED unique_faces
                 ELSE /\ unique_faces' = Append(unique_faces, [id |-> n])
                      /\ face_timestamps' = Append(face_timestamps, <<ts>>)
              /\ obs' = [NoObs EXCEPT !.kind = IF m >= 1 THEN "dup" ELSE "new",
                                      !.ts = ts, !.sims = sims,
                                      !.before = face_timestamps,
                                      !.scan.is_duplicate = (m >= 1),
                                      !.scan.best_match_index = m,
                                      !.scan.compared = IF m >= 1 THEN m ELSE n]
    /\ pending' = pending - 1
    /\ UNCHANGED <<toolVars, cmp, variant, fps, total_frames, frame_count, pc, detected_faces, result, stream, seen, hist>>

\* cap.read() returns no frame: break, cap, start the result
FinalFinish ==
    /\ variant = "final" /\ pc = "run" /\ pending = 0
    /\ ~ProgressRaises
    /\ frame_count + SAMPLE_FINAL > FrameBound
    /\ unique_faces' = CapFaces(unique_faces, MAX_FACES_FINAL)
    /\ result' = [total_people |-> Min(Len(unique_faces), MAX_FACES_FINAL),
                  faces |-> <<>>]
    /\ pc' = "emit"
    /\ UNCHANGED <<toolVars, cmp, variant, fps, total_frames, frame_count, pending, detected_faces,
                   face_timestamps, obs, stream, seen, hist>>

\* for person_id, face_data in enumerate(unique_faces): results["faces"].append
FinalEmitFace ==
    /\ variant = "final" /\ pc = "emit"
    /\ Len(result.faces) < Len(unique_faces)
    /\ LET person_id == Len(result.faces)
       IN  \E tss \in Orderings(face_timestamps[person_id + 1]) :
              result' = [result EXCEPT !.faces =
                            Append(@, [image |-> person_id + 1,
                                       timestamps |-> tss])]
    /\ UNCHANGED <<toolVars, cmp, variant, fps, total_frames, frame_count, pending, pc, detected_faces,
                   unique_faces, face_timestamps, obs, stream, seen, hist>>

\* print(json.dumps(results, indent=2))
FinalPrint ==
    /\ variant = "final" /\ pc = "emit"
    /\ Len(result.faces) = Len(unique_faces)
    /\ pc' = "done"
    /\ UNCHANGED <<toolVars, cmp, variant, fps, total_frames, frame_count, pending, detected_faces,
                   unique_faces, face_timestamps, result, obs, stream, seen, hist>>

-----------------------------------------------------------------------------
(* The two face_detect.py scripts.  A face encoding is a point on a line and  *)
(* the distance of two encodings their difference, both in hundredths; the    *)
(* threshold is in hundredths too (0.6 is 60).                                *)

DEFAULT_THRESHOLD == 60
Thresholds == {50, DEFAULT_THRESHOLD}
Encodings == {0, 60, 61}
VideoIds == {"cam1"}

MaxVideoFrames == 2
FrameSizes == {0, 1, 2}

Abs(x) == IF x < 0 THEN -x ELSE x

\* any(...) of a list of booleans
AnyTrue(bools) == \E i \in 1..Len(bools) : bools[i]

\* face_recognition.face_distance(known, e): the distance of e to each known
\* encoding
face_distance(known, e) == [i \in 1..Len(known) |-> Abs(known[i] - e)]

\* face_recognition.compare_faces(known, e, tolerance):
\* list(face_distance(known, e) <= tolerance)
face_recognition_compare_faces(known, e, tolerance) ==
    [i \in 1..Len(known) |-> face_distance(known, e)[i] <= tolerance]

\* "%03d"
ThreeDigits(n) ==
    IF n < 10 THEN <<"0", "0">> \o Decimal(n)
    ELSE IF n < 100 THEN <<"0">> \o Decimal(n) ELSE Decimal(n)

\* f"{self.video_id}_face_{self.face_count-1:03d}.jpg"
ApiFaceFilename(video_id, face_count) ==
    <<video_id, "_face_">> \o ThreeDigits(face_count - 1) \o <<".jpg">>

\* str(Path("faces") / f"face_{face_id:03d}.jpg")
BackendFacePath(face_id) ==
    <<"faces/", "face_">> \o ThreeDigits(face_id) \o <<".jpg">>

\* (mutant: the counter also counts the duplicates)
ApiFace_CountAll(p, e) ==
    IF /\ Len(p.known_encodings) > 0
       /\ AnyTrue(face_recognition_compare_faces(p.known_encodings, e, p.threshold))
    THEN [p EXCEPT !.face_count = @ + 1, !.log = Append(@, "duplicate")]
    ELSE [p EXCEPT !.face_count = @ + 1,
                   !.known_faces =
                       Append(@, ApiFaceFilename(p.video_id, p.face_count + 1)),
                   !.known_encodings = Append(@, e),
                   !.log = Append(@, "new")]

\* api, the body of the loop of process_faces for one face
ApiFace(p, e) ==
    IF /\ Len(p.known_encodings) > 0
       /\ AnyTrue(face_recognition_compare_faces(p.known_encodings, e, p.threshold))
    THEN [p EXCEPT !.log = Append(@, "duplicate")]
    ELSE [p EXCEPT !.face_count = @ + 1,
                   !.known_faces =
                       Append(@, ApiFaceFilename(p.video_id, p.face_count + 1)),
                   !.known_encodings = Append(@, e),
                   !.log = Append(@, "new")]

\* api, process_faces(frame, frame_num)
RECURSIVE process_faces(_, _)
process_faces(p, frame) ==
    IF frame = <<>> THEN p
    ELSE process_faces(ApiFace(p, Head(frame)), Tail(frame))

\* (mutant: a face at the threshold exactly counts as new)
is_new_face_Below(known, e, threshold) ==
    IF Len(known) = 0 THEN TRUE
    ELSE ~AnyTrue([i \in 1..Len(known) |-> face_distance(known, e)[i] < threshold])

\* backend, is_new_face(face_encoding)
is_new_face(known, e, threshold) ==
    IF Len(known) = 0 THEN TRUE
    ELSE ~AnyTrue([i \in 1..Len(known) |-> face_distance(known, e)[i] <= threshold])

\* backend, the body of the face loop of process_video for one face
BackendFace(p, e) ==
    IF is_new_face(p.known_face_encodings, e, p.similarity_threshold)
    THEN [p EXCEPT !.known_face_encodings = Append(@, e),
                   !.unique_faces = Append(@, BackendFacePath(p.face_count)),
                   !.face_count = @ + 1,
                   !.log = Append(@, "new")]
    ELSE [p EXCEPT !.log = Append(@, "duplicate")]

\* backend, the faces of one frame
RECURSIVE BackendFrame(_, _)
BackendFrame(p, frame) ==
    IF frame = <<>> THEN p
    ELSE BackendFrame(BackendFace(p, Head(frame)), Tail(frame))

\* the frames extract_frames can return
Frames == UNION {[1..n -> Encodings] : n \in FrameSizes}
Videos ==
    [opened : {FALSE}, frames : {<<>>}]
       \cup [opened : {TRUE},
             frames : UNION {[1..n -> Frames] : n \in 0..MaxVideoFrames}]

NoVideo == [opened |-> FALSE, frames |-> <<>>]

NoOutput == [unique_faces_count |-> -1, faces |-> <<>>, error |-> FALSE]
ErrorResponse == [unique_faces_count |-> 0, faces |-> <<>>, error |-> TRUE]

\* FaceProcessor.__init__ of the two scripts
NewApi(video_id, threshold) ==
    [video_id |-> video_id, threshold |-> threshold, known_faces |-> <<>>,
     known_encodings |-> <<>>, face_count |-> 0,
     frame |-> 0, log |-> <<>>, pc |-> "start", result |-> NoOutput]

NewBackend(threshold) ==
    [similarity_threshold |-> threshold, known_face_encodings |-> <<>>,
     unique_faces |-> <<>>, face_count |-> 0,
     frame |-> 0, log |-> <<>>, pc |-> "start", result |-> NoOutput]

analysisVars == <<variant, fps, total_frames, frame_count, pending, pc,
                  detected_faces, unique_faces, face_timestamps, result, obs,
                  stream, seen, hist, cmp>>

\* api: extract_frames; a video that does not open raises, and main answers
\* with the error response
ApiExtractFrames ==
    /\ api.pc = "start"
    /\ api' = IF video.opened
              THEN [api EXCEPT !.pc = "run"]
              ELSE [api EXCEPT !.pc = "failed", !.result = ErrorResponse]
    /\ UNCHANGED <<analysisVars, timing, video, backend, search, disk, cleanup>>

\* api: one turn of the frame loop of process_video
ApiProcessFrame ==
    /\ api.pc = "run"
    /\ api.frame < Len(video.frames)
    /\ api' = [process_faces(api, video.frames[api.frame + 1])
                  EXCEPT !.frame = @ + 1]
    /\ UNCHANGED <<analysisVars, timing, video, backend, search, disk, cleanup>>

\* api: the result of process_video, printed by main
ApiFinish ==
    /\ api.pc = "run"
    /\ api.frame = Len(video.frames)
    /\ api' = [api EXCEPT
                  !.pc = "done",
                  !.result =
                      [unique_faces_count |-> api.face_count,
                       faces |-> [i \in 1..Len(api.known_faces) |->
                                     <<"faces/">> \o api.known_faces[i]],
                       error |-> FALSE]]
    /\ UNCHANGED <<analysisVars, timing, video, backend, search, disk, cleanup>>

\* backend: extract_frames; a video that does not open, or gives no frame,
\* raises, and main answers with the error response
BackendExtractFrames ==
    /\ backend.pc = "start"
    /\ backend' = IF video.opened /\ video.frames # <<>>
                  THEN [backend EXCEPT !.pc = "run"]
                  ELSE [backend EXCEPT !.pc = "failed",
                                       !.result = ErrorResponse]
    /\ UNCHANGED <<analysisVars, timing, video, api, search, disk, cleanup>>

\* backend: one turn of the frame loop of process_video
BackendProcessFrame ==
    /\ backend.pc = "run"
    /\ backend.frame < Len(video.frames)
    /\ backend' = [BackendFrame(backend, video.frames[backend.frame + 1])
                      EXCEPT !.frame = @ + 1]
    /\ UNCHANGED <<analysisVars, timing, video, api, search, disk, cleanup>>

\* backend: the response of process_video, printed by main
BackendFinish ==
    /\ backend.pc = "run"
    /\ backend.frame = Len(video.frames)
    /\ backend' = [backend EXCEPT
                      !.pc = "done",
                      !.result = [unique_faces_count |-> backend.face_count,
                                  faces |-> backend.unique_faces,
                                  error |-> FALSE]]
    /\ UNCHANGED <<analysisVars, timing, video, api, search, disk, cleanup>>

-----------------------------------------------------------------------------
(* src/api/python/face_search.py.  A path is the sequence of its parts; a    *)
(* stored file is described by what the calls made on it return; distances   *)
(* and the threshold are in hundredths.                                      *)

FileNames == {"a.jpg", "b.jpg"}

\* the entries of --face-images: a file name, with or without "faces/"
FaceImages == {<<n>> : n \in FileNames} \cup {<<"faces/", n>> : n \in FileNames}

MaxImages == 2

SearchDistances == {39, 40, 41}

\* a file of ../storage/faces: absent; without a face; one on which
\* load_and_encode_image fails; one on which the comparison raises; a face at
\* some distance of the search encoding
MissingFile == [exists |-> FALSE, load |-> "none", distance |-> 0]
StoredFiles ==
    {MissingFile}
       \cup [exists : {TRUE}, load : {"noface", "error", "raises"}, distance : {0}]
       \cup [exists : {TRUE}, load : {"face"}, distance : SearchDistances]

\* the search image: absent, without a face, or a face
SearchImages == {"missing", "noface", "face"}

\* face_image.replace('faces/', '')
CleanFaceImage(face_image) == SelectSeq(face_image, LAMBDA part : part # "faces/")

\* f"../storage/faces/{clean_face_image}", as the file it names
FaceFile(face_image) == CleanFaceImage(face_image)[1]

\* load_and_encode_image(face_path): the encoding, or None
Encodable(file) == file.load \in {"face", "raises"}

\* (mutant: a similarity equal to the threshold is no match)
CompareOne_Above(matched, face_image, store, threshold) ==
    LET file == store[FaceFile(face_image)]
    IN  IF ~file.exists THEN matched
        ELSE IF ~Encodable(file) THEN matched
        ELSE IF file.load = "raises" THEN matched
        ELSE IF 100 - file.distance > threshold
             THEN Append(matched, face_image)
             ELSE matched

\* one turn of the loop of compare_faces
CompareOne(matched, face_image, store, threshold) ==
    LET file == store[FaceFile(face_image)]
    IN  IF ~file.exists THEN matched
        ELSE IF ~Encodable(file) THEN matched
        ELSE IF file.load = "raises" THEN matched
        ELSE IF 100 - file.distance >= threshold
             THEN Append(matched, face_image)
             ELSE matched

NoSearchResult ==
    [matched_faces |-> <<>>, total_faces_checked |-> -1, matches_found |-> -1,
     error |-> FALSE]
SearchError ==
    [matched_faces |-> <<>>, total_faces_checked |-> -1, matches_found |-> -1,
     error |-> TRUE]

NewSearch(search_image, face_images, store, threshold) ==
    [search_image |-> search_image, face_images |-> face_images,
     store |-> store, threshold |-> threshold,
     matched_faces |-> <<>>, checked |-> 0, pc |-> "start",
     result |-> NoSearchResult]

NoSearch ==
    NewSearch("missing", <<>>, [n \in FileNames |-> MissingFile],
              DEFAULT_THRESHOLD)

\* main up to the call of compare_faces: the search image is there and has a
\* face, and there are face images; otherwise an error is printed and main
\* exits
SearchStart ==
    /\ search.pc = "start"
    /\ search' = IF search.search_image = "face" /\ search.face_images # <<>>
                 THEN [search EXCEPT !.pc = "compare"]
                 ELSE [search EXCEPT !.pc = "exit", !.result = SearchError]
    /\ UNCHANGED <<analysisVars, timing, video, api, backend, disk, cleanup>>

\* compare_faces: one turn of its loop
SearchCompare ==
    /\ search.pc = "compare"
    /\ search.checked < Len(search.face_images)
    /\ search' = [search EXCEPT
                     !.checked = @ + 1,
                     !.matched_faces =
                         CompareOne(@, search.face_images[search.checked + 1],
                                    search.store, search.threshold)]
    /\ UNCHANGED <<analysisVars, timing, video, api, backend, disk, cleanup>>

\* compare_faces returns; main prints the result
SearchFinish ==
    /\ search.pc = "compare"
    /\ search.checked = Len(search.face_images)
    /\ search' = [search EXCEPT
                     !.pc = "done",
                     !.result =
                         [matched_faces |-> search.matched_faces,
                          total_faces_checked |-> Len(search.face_images),
                          matches_found |-> Len(search.matched_faces),
                          error |-> FALSE]]
    /\ UNCHANGED <<analysisVars, timing, video, api, backend, disk, cleanup>>

-----------------------------------------------------------------------------
(* src/backend/utils/cleanup.py.  A directory is absent or maps the names of *)
(* its entries to what they are; a file has an age in seconds (the time of   *)
(* the call minus its mtime) and may be one os.remove fails on.              *)

SECONDS_PER_HOUR == 3600
DEFAULT_AGE == 24
AgeArgs == {1, DEFAULT_AGE}

MaxEntries == 2
EntryNames == 1..MaxEntries

\* a file at the limit of one hour, and just beyond it, removable or not; a
\* file at the limit of a day, and beyond it; a subdirectory with an old file
Entries ==
    [kind : {"file"}, age : {3600, 3601, 86400, 86401}, locked : {FALSE},
     inside : {0}]
       \cup [kind : {"file"}, age : {3601}, locked : {TRUE}, inside : {0}]
       \cup [kind : {"dir"}, age : {86401}, locked : {FALSE}, inside : {86401}]

NoDirectory == [exists |-> FALSE, entries |-> <<>>]

Directories ==
    {NoDirectory}
       \cup {[exists |-> TRUE, entries |-> e] :
               e \in UNION {[names -> Entries] : names \in SUBSET EntryNames}}

\* the faces directory: absent, or an old file, or a recent one and a
\* subdirectory
FacesDirectories ==
    {NoDirectory,
     [exists |-> TRUE,
      entries |-> <<[kind |-> "file", age |-> 86401, locked |-> FALSE,
                     inside |-> 0]>>],
     [exists |-> TRUE,
      entries |-> <<[kind |-> "file", age |-> 3600, locked |-> FALSE,
                     inside |-> 0],
                    [kind |-> "dir", age |-> 86401, locked |-> FALSE,
                     inside |-> 86401]>>]}

\* (mutant: a file of the maximum age exactly is removed too)
IsOld_AtLeast(file_age, max_age_hours) ==
    file_age >= max_age_hours * SECONDS_PER_HOUR

\* file_age > max_age_seconds, with max_age_seconds = max_age_hours * 3600
IsOld(file_age, max_age_hours) ==
    file_age > max_age_hours * SECONDS_PER_HOUR

\* the body of the loop of cleanup_old_files for one name: what it prints
CleanupLine(entry, max_age_hours) ==
    IF entry.kind = "file" /\ IsOld(entry.age, max_age_hours)
    THEN IF entry.locked THEN "Error removing" ELSE "Removed"
    ELSE "none"

\* the body of the loop of cleanup_old_files for one name: the directory after
CleanupEntry(entries, name, max_age_hours) ==
    IF CleanupLine(entries[name], max_age_hours) = "Removed"
    THEN [n \in DOMAIN entries \ {name} |-> entries[n]]
    ELSE entries

\* os.listdir(directory) when cleanup_old_files is called on it and it exists
Listing(selected, directory) ==
    IF selected /\ directory.exists THEN DOMAIN directory.entries ELSE {}

NewCleanup(args, before) ==
    [args |-> args, pc |-> "start", todo |-> {}, log |-> <<>>,
     before |-> before]

NoArgs == [videos |-> FALSE, faces |-> FALSE, all |-> FALSE, age |-> DEFAULT_AGE]
NoDisk == [videos |-> NoDirectory, faces |-> NoDirectory]

\* main: without --videos, --faces or --all it prints its usage and returns;
\* otherwise cleanup_old_files("videos", age) is called when selected
CleanupMain ==
    /\ cleanup.pc = "start"
    /\ LET a == cleanup.args
       IN  cleanup' =
             IF ~(a.videos \/ a.faces \/ a.all)
             THEN [cleanup EXCEPT !.pc = "done"]
             ELSE [cleanup EXCEPT
                      !.pc = "videos",
                      !.todo = Listing(a.all \/ a.videos, disk.videos)]
    /\ UNCHANGED <<analysisVars, timing, video, api, backend, search, disk>>

\* cleanup_old_files: one turn of its loop, on any name not yet visited
CleanupFile ==
    /\ cleanup.pc \in {"videos", "faces"}
    /\ \E name \in cleanup.todo :
          LET entries == disk[cleanup.pc].entries
              line == CleanupLine(entries[name], cleanup.args.age)
          IN  /\ disk' = [disk EXCEPT
                            ![cleanup.pc].entries =
                                CleanupEntry(entries, name, cleanup.args.age)]
              /\ cleanup' = [cleanup EXCEPT
                               !.todo = @ \ {name},
                               !.log = IF line = "none" THEN @
                                       ELSE Append(@, <<line, cleanup.pc, name>>)]
    /\ UNCHANGED <<analysisVars, timing, video, api, backend, search>>

\* main: "videos" is finished; cleanup_old_files("faces", age) when selected
CleanupFaces ==
    /\ cleanup.pc = "videos"
    /\ cleanup.todo = {}
    /\ cleanup' = [cleanup EXCEPT
                      !.pc = "faces",
                      !.todo = Listing(cleanup.args.all \/ cleanup.args.faces,
                                       disk.faces)]
    /\ UNCHANGED <<analysisVars, timing, video, api, backend, search, disk>>

\* main returns
CleanupReturn ==
    /\ cleanup.pc = "faces"
    /\ cleanup.todo = {}
    /\ cleanup' = [cleanup EXCEPT !.pc = "done"]
    /\ UNCHANGED <<analysisVars, timing, video, api, backend, search, disk>>

-----------------------------------------------------------------------------
(* Specifications *)

\* no frame read, nothing compared
AnalysisIdle ==
    /\ variant = "clean" /\ fps = 0 /\ stream = Empty /\ total_frames = 0
    /\ frame_count = 0 /\ pending = 0 /\ pc = "run"
    /\ detected_faces = <<>> /\ unique_faces = <<>> /\ face_timestamps = <<>>
    /\ result = NoResult /\ obs = NoObs /\ seen = 0 /\ hist = NoHist

\* the other programs not started
ToolsIdle ==
    /\ timing = NoTiming
    /\ video = NoVideo
    /\ api = NewApi("", DEFAULT_THRESHOLD)
    /\ backend = NewBackend(DEFAULT_THRESHOLD)
    /\ search = NoSearch
    /\ disk = NoDisk
    /\ cleanup = NewCleanup(NoArgs, NoDisk)

InitWith(streams) ==
    /\ variant \in {"clean", "final"}
    /\ fps \in FpsSet
    /\ stream \in streams
    /\ total_frames \in FrameCounts
    /\ frame_count = 0
    /\ pending = 0
    /\ pc = "run"
    /\ detected_faces = <<>>
    /\ unique_faces = <<>>
    /\ face_timestamps = <<>>
    /\ result = NoResult
    /\ obs = NoObs
    /\ seen = 0
    /\ hist = NoHist
    /\ cmp = NoCmp
    /\ ToolsIdle

\* any short video, and the long and the empty one
Init == InitWith({0, Sparse, Empty})

\* the crowd videos, which fill the store beyond the caps, and the long one
InitCap == InitWith({Sparse} \cup 1..NumStreams)

Next ==
    \/ CleanSampleFrame
    \/ CleanProgressZero
    \/ CleanRejectFace
    \/ CleanFpsZero
    \/ CleanFoldFace
    \/ CleanFinish
    \/ FinalSampleFrame
    \/ FinalProgressZero
    \/ FinalFpsZero
    \/ FinalFoldFace
    \/ FinalFinish
    \/ FinalEmitFace
    \/ FinalPrint

Spec == Init /\ [][Next]_vars

SpecCap == InitCap /\ [][Next]_vars

\* calculate_face_similarity on any two patches, in both orders
InitSim ==
    /\ AnalysisIdle
    /\ ToolsIdle
    /\ cmp \in [m : Measurements, ab : {NotCompared}, ba : {NotCompared}]

NextSim == CompareAB \/ CompareBA

SpecSim == InitSim /\ [][NextSim]_vars

\* the timestamp string of any elapsed time
InitTime ==
    /\ AnalysisIdle
    /\ cmp = NoCmp
    /\ video = NoVideo
    /\ api = NewApi("", DEFAULT_THRESHOLD)
    /\ backend = NewBackend(DEFAULT_THRESHOLD)
    /\ search = NoSearch
    /\ disk = NoDisk
    /\ cleanup = NewCleanup(NoArgs, NoDisk)
    /\ timing \in [elapsed : ElapsedTimes, timestamp : {NoText}]

NextTime == FormatTimestamp

SpecTime == InitTime /\ [][NextTime]_vars

\* the two FaceProcessor scripts on one video, with one threshold
InitFaces ==
    /\ AnalysisIdle
    /\ cmp = NoCmp
    /\ timing = NoTiming
    /\ search = NoSearch
    /\ disk = NoDisk
    /\ cleanup = NewCleanup(NoArgs, NoDisk)
    /\ video \in Videos
    /\ \E t \in Thresholds :
          /\ api \in {NewApi(v, t) : v \in VideoIds}
          /\ backend = NewBackend(t)

NextFaces ==
    \/ ApiExtractFrames
    \/ ApiProcessFrame
    \/ ApiFinish
    \/ BackendExtractFrames
    \/ BackendProcessFrame
    \/ BackendFinish

SpecFaces == InitFaces /\ [][NextFaces]_vars

\* face_search.py on any search image, list of face images and stored files
InitSearch ==
    /\ AnalysisIdle
    /\ cmp = NoCmp
    /\ timing = NoTiming
    /\ video = NoVideo
    /\ api = NewApi("", DEFAULT_THRESHOLD)
    /\ backend = NewBackend(DEFAULT_THRESHOLD)
    /\ disk = NoDisk
    /\ cleanup = NewCleanup(NoArgs, NoDisk)
    /\ \E image \in SearchImages, store \in [FileNames -> StoredFiles],
          images \in UNION {[1..n -> FaceImages] : n \in 0..MaxImages} :
          search = NewSearch(image, images, store, DEFAULT_THRESHOLD)

NextSearch == SearchStart \/ SearchCompare \/ SearchFinish

SpecSearch == InitSearch /\ [][NextSearch]_vars

\* cleanup.py with any flags on any two directories
InitCleanup ==
    /\ AnalysisIdle
    /\ cmp = NoCmp
    /\ timing = NoTiming
    /\ video = NoVideo
    /\ api = NewApi("", DEFAULT_THRESHOLD)
    /\ backend = NewBackend(DEFAULT_THRESHOLD)
    /\ search = NoSearch
    /\ disk \in [videos : Directories, faces : FacesDirectories]
    /\ \E args \in [videos : BOOLEAN, faces : BOOLEAN, all : BOOLEAN,
                      age : AgeArgs] :
          cleanup = NewCleanup(args, disk)

NextCleanup == CleanupMain \/ CleanupFile \/ CleanupFaces \/ CleanupReturn

SpecCleanup == InitCleanup /\ [][NextCleanup]_vars

-----------------------------------------------------------------------------
(* Vocabulary of the claims *)

\* the last thing analyze_video_clean did was to cluster an accepted face
CleanStep == variant = "clean" /\ pc = "run" /\ obs.kind \in {"new", "dup"}

\* analyze_video_clean has emitted its result
CleanDone == variant = "clean" /\ pc = "done"

\* the clusters whose stored representative was compared with the face
Readable(sims) == {i \in 1..Len(sims) : sims[i] # NoImage}

\* the clusters whose similarity to the face is above the duplicate threshold
Above(sims) == {i \in 1..Len(sims) : sims[i] > DUP_THRESHOLD}

\* the clusters whose similarity to the face is the maximum over all clusters
AtMax(sims) ==
    {i \in Readable(sims) : \A j \in Readable(sims) : sims[j] <= sims[i]}

Lowest(S) == CHOOSE i \in S : \A j \in S : i <= j

Count(seq, x) == Cardinality({i \in 1..Len(seq) : seq[i] = x})

\* cluster m of the store has the face's timestamp and no other cluster changed
FoldedInto(m) ==
    /\ obs.kind = "dup"
    /\ Len(detected_faces) = Len(obs.before)
    /\ obs.ts \in SeqToSet(detected_faces[m].timestamps)
    /\ \A j \in 1..Len(obs.before) : j # m => detected_faces[j] = obs.before[j]

-----------------------------------------------------------------------------
(* C1 - C2 *)

\* C1: best-match assignment.  Whenever some existing cluster is above the
\* duplicate threshold for an accepted face, the face is folded into the
\* cluster of maximum similarity over all existing clusters.
\* Fails on the code: the scan breaks at the first cluster above the threshold.
C1_BestMatch ==
    (CleanStep /\ Above(obs.sims) # {}) => FoldedInto(Lowest(AtMax(obs.sims)))

\* C2: representative replacement.  A duplicate of higher quality than the
\* cluster's representative becomes the representative (quality swapped), the
\* cluster keeping its id and its earlier timestamps.
\* Fails on the code: the duplicate branch only records the timestamp.
C2_Replacement ==
    (CleanStep /\ obs.kind = "dup"
       /\ obs.quality > obs.before[obs.scan.best_match_index].quality)
    => LET m == obs.scan.best_match_index
       IN  /\ detected_faces[m].quality = obs.quality
           /\ detected_faces[m].image = obs.before[m].image
           /\ \A t \in SeqToSet(obs.before[m].timestamps) :
                  t \in SeqToSet(detected_faces[m].timestamps)

-----------------------------------------------------------------------------
(* C3 - C6 *)

Distinct(seq) == Cardinality(SeqToSet(seq)) = Len(seq)

\* C3 as claimed: a stream of n >= 1 accepted faces at distinct timestamps,
\* each with similarity >= the threshold (equality included) to the
\* representative of the first cluster, ends in exactly one cluster holding
\* exactly the n timestamps.
C3_SameAtLeast ==
    (CleanDone /\ Len(hist.tss) >= 1 /\ Distinct(hist.tss) /\ hist.allAtLeast)
    => /\ result.total_people = 1
       /\ Len(result.faces) = 1
       /\ result.faces[1].timestamps = hist.tss

\* C3 amended: the same with every similarity strictly above the threshold.
C3_SameAbove ==
    (CleanDone /\ Len(hist.tss) >= 1 /\ Distinct(hist.tss) /\ hist.allAbove)
    => /\ result.total_people = 1
       /\ Len(result.faces) = 1
       /\ result.faces[1].timestamps = hist.tss

\* Scenario A: three similar faces at 0:00:01, 0:00:02, 0:00:03, one cluster
C3_Witness ==
    /\ CleanDone /\ hist.allAbove
    /\ hist.tss = <<TimedeltaStr(1), TimedeltaStr(2), TimedeltaStr(3)>>
    /\ Len(result.faces) = 1

\* C4: NEW transition.  An accepted face that no existing cluster is above the
\* threshold for (an empty store included) appends exactly one cluster, with
\* id = old length + 1, the face's quality and the face's timestamp alone.
C4_NewTransition ==
    (CleanStep /\ Above(obs.sims) = {})
    => /\ obs.kind = "new"
       /\ detected_faces =
              Append(obs.before, [image |-> Len(obs.before) + 1,
                                  timestamps |-> <<obs.ts>>,
                                  quality |-> obs.quality])

\* Scenario B: a second face exactly at the threshold: two clusters, one
\* timestamp each
C4_Witness ==
    /\ CleanStep /\ obs.kind = "new" /\ obs.sims = <<DUP_THRESHOLD>>
    /\ Len(detected_faces) = 2
    /\ \A i \in 1..2 : Len(detected_faces[i].timestamps) = 1

\* C5: DUPLICATE transition.  After a face is classified a duplicate of
\* cluster C, C's timestamps hold the face's timestamp exactly once and the
\* number of clusters is unchanged.
C5_Duplicate ==
    (CleanStep /\ obs.kind = "dup")
    => LET m == obs.scan.best_match_index
       IN  /\ m \in 1..Len(obs.before)
           /\ Len(detected_faces) = Len(obs.before)
           /\ Count(detected_faces[m].timestamps, obs.ts) = 1

\* a duplicate whose timestamp the cluster already had
C5_Witness ==
    /\ CleanStep /\ obs.kind = "dup"
    /\ obs.ts \in SeqToSet(obs.before[obs.scan.best_match_index].timestamps)
    /\ detected_faces = obs.before

\* C6: tie-break.  When several clusters share the maximum similarity and it
\* is above the threshold, the face is folded into the one of lowest id.
\* Fails on the code with C1: a cluster before the tied ones that is above the
\* threshold takes the face.
C6_TieBreak ==
    (CleanStep /\ Cardinality(AtMax(obs.sims)) >= 2
       /\ AtMax(obs.sims) \subseteq Above(obs.sims))
    => FoldedInto(Lowest(AtMax(obs.sims)))

-----------------------------------------------------------------------------
(* C7 - C10: the emitted result *)

\* the quality of the cluster that carries image name k, before the sort
QualityOf(k) == hist.store[k].quality

\* the image names of the emitted faces
Emitted == {result.faces[i].image : i \in 1..Len(result.faces)}

\* C7: cap invariant.  The emitted faces list has at most 25 entries in
\* analyze_video_clean and at most 20 in analyze_video_final, however many
\* clusters the pass created.
C7_Cap ==
    pc = "done"
    => /\ variant = "clean" => Len(result.faces) <= MAX_FACES_CLEAN
       /\ variant = "final" => Len(result.faces) <= MAX_FACES_FINAL

\* more clusters were created than the cap allows
C7_Witness ==
    /\ pc = "done" /\ variant = "final"
    /\ Len(face_timestamps) > MAX_FACES_FINAL
    /\ Len(result.faces) = MAX_FACES_FINAL

\* C8: top-k selection.  When analyze_video_clean created more than 25
\* clusters, the result holds exactly 25 distinct clusters and no omitted
\* cluster has a strictly higher quality than a retained one.
C8_TopK ==
    (CleanDone /\ Len(hist.store) > MAX_FACES_CLEAN)
    => /\ Len(result.faces) = MAX_FACES_CLEAN
       /\ Cardinality(Emitted) = MAX_FACES_CLEAN
       /\ Emitted \subseteq 1..Len(hist.store)
       /\ \A k \in (1..Len(hist.store)) \ Emitted :
              \A r \in Emitted : QualityOf(k) <= QualityOf(r)

\* more than 25 clusters, and the ones created last are among the best
C8_Witness ==
    /\ CleanDone /\ Len(hist.store) > MAX_FACES_CLEAN
    /\ Len(hist.store) \in Emitted
    /\ \E k \in 1..Len(hist.store) : k \notin Emitted /\ k < MAX_FACES_CLEAN

\* C9: ranking order.  The emitted clusters are in descending order of
\* quality, and clusters of equal quality in ascending order of creation id.
C9_Ranking ==
    CleanDone
    => /\ Emitted \subseteq 1..Len(hist.store)
       /\ \A i, j \in 1..Len(result.faces) :
              i < j =>
                LET a == result.faces[i].image
                    b == result.faces[j].image
                IN  \/ QualityOf(a) > QualityOf(b)
                    \/ QualityOf(a) = QualityOf(b) /\ a < b

\* a result with both a tie in quality and a later cluster ranked first
C9_Witness ==
    /\ CleanDone /\ Len(result.faces) >= 3
    /\ \E i, j \in 1..Len(result.faces) :
          /\ i < j
          /\ QualityOf(result.faces[i].image) = QualityOf(result.faces[j].image)
    /\ \E i, j \in 1..Len(result.faces) :
          i < j /\ result.faces[i].image > result.faces[j].image

\* C10: in the result of analyze_video_clean every timestamps list is in
\* ascending (chronological) order without duplicates.
C10_TimestampsSorted ==
    CleanDone
    => \A f \in 1..Len(result.faces) :
          LET tss == result.faces[f].timestamps
          IN  \A i, j \in 1..Len(tss) : i < j => TsBefore(tss[i], tss[j])

\* the same timestamp arrived twice for one cluster: two sampled frames within
\* one second
C10_Witness ==
    /\ CleanDone /\ Len(result.faces) = 1
    /\ Len(hist.tss) = 3 /\ ~Distinct(hist.tss)
    /\ Len(result.faces[1].timestamps) = 2
    /\ fps = 10

-----------------------------------------------------------------------------
(* C11 - C15: the result, the gate, the exceptions *)

\* C11: in every emitted result total_people is the number of entries of
\* faces, which is the number of clusters kept after the sort and the cap, not
\* the number of clusters the pass created.
C11_TotalPeople ==
    pc = "done"
    => /\ result.total_people = Len(result.faces)
       /\ variant = "clean"
            => result.total_people = Min(Len(hist.store), MAX_FACES_CLEAN)
       /\ variant = "final"
            => result.total_people = Min(Len(face_timestamps), MAX_FACES_FINAL)

\* the pass created more clusters than it reports
C11_Witness ==
    /\ CleanDone
    /\ Len(hist.store) > MAX_FACES_CLEAN
    /\ result.total_people = MAX_FACES_CLEAN

\* analyze_video_clean has let no face through the gate so far
NothingAccepted ==
    variant = "clean" /\ detected_faces = <<>> /\ obs.kind # "raised"

\* C12: empty stream.  When no face is ever accepted (no frame sampled, no
\* face detected, every face rejected) the run completes and returns
\* total_people = 0 and faces = [].
\* Fails on the code: the progress line divides by total_frames.
C12_EmptyStream ==
    NothingAccepted
    => /\ pc # "raised"
       /\ pc = "done" => result = [total_people |-> 0, faces |-> <<>>]

\* the bounds and sub-checks of the gate, as the claim lists them
PassesGate(face_img, quality) ==
    /\ ~face_img.broken
    /\ face_img.width \in MIN_SIDE..MAX_SIDE
    /\ face_img.height \in MIN_SIDE..MAX_SIDE
    /\ 100 * face_img.width >= MIN_ASPECT * face_img.height
    /\ 100 * face_img.width <= MAX_ASPECT * face_img.height
    /\ face_img.skin \in MIN_SKIN..MAX_SKIN
    /\ face_img.edges <= MAX_EDGES
    /\ face_img.symmetry # NaN /\ face_img.symmetry >= MIN_SYMMETRY
    /\ face_img.eyes >= MIN_EYES
    /\ quality >= MIN_QUALITY

\* the last thing analyze_video_clean did was to handle a face of the frame
CleanFaceStep ==
    variant = "clean" /\ pc = "run" /\ obs.kind \in {"new", "dup", "rejected"}

\* C13: quality gate, failing closed.  A face changes the cluster store only
\* if it passes every geometric bound, every completeness sub-check and the
\* minimum quality; a face that fails one of them is rejected and leaves the
\* store as it was.
\* Fails on the code: a symmetry that is nan passes the symmetry check.
C13_QualityGate ==
    CleanFaceStep
    => /\ detected_faces # obs.before => PassesGate(obs.face, obs.quality)
       /\ ~PassesGate(obs.face, obs.quality)
            => obs.kind = "rejected" /\ detected_faces = obs.before

\* an empty patch, a box without width or height, a patch OpenCV raises on
Malformed(face_img) ==
    face_img.broken \/ face_img.width = 0 \/ face_img.height = 0

C15_NeverRaises ==
    variant = "clean"
    => /\ pc # "raised"
       /\ pc = "done"
            => /\ result.total_people = Len(result.faces)
               /\ \A i \in 1..Len(result.faces) :
                      result.faces[i].timestamps # <<>>

-----------------------------------------------------------------------------
(* C17: the similarity *)

\* C17: symmetry.  For all patches a and b calculate_face_similarity(a, b)
\* equals calculate_face_similarity(b, a), the template matching with its
\* rescaled second argument included.
\* Fails on the code: below scale 1.0 the matching depends on which patch
\* is the template.
C17_Symmetry ==
    (cmp.ab # NotCompared /\ cmp.ba # NotCompared) => cmp.ab = cmp.ba

-----------------------------------------------------------------------------
(* C18 - C20: the clusters over time *)

\* the positions in the list faces of the cluster with image name k
Holding(faces, k) == {i \in 1..Len(faces) : faces[i].image = k}

\* C18: non-decreasing quality.  From the step that creates a cluster until
\* the result is emitted, the quality stored for the cluster never decreases
\* (the final sort moves clusters, so a cluster is known by its image name).
C18_QualityNeverDecreases ==
    [][variant = "clean"
         => \A i \in 1..Len(detected_faces) :
               \A j \in Holding(detected_faces', detected_faces[i].image) :
                  detected_faces'[j].quality >= detected_faces[i].quality]_vars

\* a cluster took in a duplicate of lower quality than its own
C18_Witness ==
    /\ CleanStep /\ obs.kind = "dup"
    /\ obs.quality < obs.before[obs.scan.best_match_index].quality
    /\ obs.ts \in SeqToSet(detected_faces[obs.scan.best_match_index].timestamps)

\* C19: monotonic cluster count.  During the pass over the faces the number
\* of clusters never decreases and grows by at most one per face, and every
\* cluster stays where it is: none is merged or deleted.
C19_CountMonotone ==
    [][(variant = "clean" /\ pc = "run" /\ pc' = "run")
         => /\ Len(detected_faces') \in
                   {Len(detected_faces), Len(detected_faces) + 1}
            /\ \A i \in 1..Len(detected_faces) :
                   detected_faces'[i].image = detected_faces[i].image]_vars

\* two clusters, and a third face, a duplicate, that added none
C19_Witness ==
    /\ CleanStep /\ obs.kind = "dup"
    /\ Len(detected_faces) = 2 /\ Len(obs.before) = 2

\* C20: cluster identity.  The k-th cluster created gets id k, carried by
\* its image name person_k.jpg; ids are pairwise distinct in every state; a
\* cluster keeps its id through the final sort and the truncation.
C20_ClusterIdentity ==
    variant = "clean"
    => /\ pc = "run"
            => \A i \in 1..Len(detected_faces) : detected_faces[i].image = i
       /\ \A i, j \in 1..Len(detected_faces) :
              i # j => detected_faces[i].image # detected_faces[j].image
       /\ pc = "done"
            => \A j \in 1..Len(detected_faces) :
                  /\ detected_faces[j].image \in 1..Len(hist.store)
                  /\ detected_faces[j] = hist.store[detected_faces[j].image]
                  /\ result.faces[j].image = detected_faces[j].image

\* the sort has moved a later cluster to the front and the cut has dropped
\* a cluster created before one it kept
C20_Witness ==
    /\ CleanDone /\ Len(hist.store) > MAX_FACES_CLEAN
    /\ result.faces[1].image > 1
    /\ \E k \in 1..Len(hist.store), j \in 1..Len(result.faces) :
          k \notin Emitted /\ k < result.faces[j].image

-----------------------------------------------------------------------------
(* C21 - C26: the store and the output *)

\* C21: in every reachable state of the store, so in every partial result,
\* every cluster has at least one timestamp.
C21_TimestampsNonEmpty ==
    /\ \A i \in 1..Len(detected_faces) : detected_faces[i].timestamps # <<>>
    /\ \A i \in 1..Len(face_timestamps) : face_timestamps[i] # <<>>

\* the pass is under way, two clusters exist and a face is still to come
C21_Witness ==
    /\ variant = "clean" /\ pc = "run" /\ pending > 0
    /\ Len(detected_faces) = 2

\* C22: no retroactive re-clustering.  A timestamp recorded in a cluster
\* stays in it: no later step removes it or moves it, whatever clusters come
\* later; a cluster's timestamps only grow.
C22_NoReclustering ==
    [][variant = "clean"
         => \A i \in 1..Len(detected_faces) :
               \A j \in Holding(detected_faces', detected_faces[i].image) :
                  LET old == detected_faces[i].timestamps
                      new == detected_faces'[j].timestamps
                  IN  Len(new) >= Len(old) /\ SubSeq(new, 1, Len(old)) = old]_vars

\* cluster 1 holds two timestamps and a later face, at the threshold but not
\* above it, has just opened cluster 2
C22_Witness ==
    /\ CleanStep /\ obs.kind = "new" /\ obs.sims = <<75>>
    /\ Len(obs.before) = 1 /\ Len(obs.before[1].timestamps) = 2
    /\ Len(detected_faces) = 2 /\ detected_faces[1] = obs.before[1]

\* C23: output identifier.  Each retained cluster is emitted under its
\* 1-based position in the sorted list, so the image references of an output
\* of n faces are numbered 1..n in output order.
\* Fails on the code: the image name is the one given at creation.
C23_OutputIdentifier ==
    CleanDone => \A i \in 1..Len(result.faces) : result.faces[i].image = i

\* "H:MM:SS" of n seconds: the hours of the whole duration without padding,
\* minutes and seconds on two digits
HMMSS(n) ==
    Decimal(n \div 3600) \o <<":">> \o TwoDigits((n \div 60) % 60) \o <<":">>
       \o TwoDigits(n % 60)

\* C24: timestamp formatting.  For every elapsed time t >= 0, fraction
\* truncated, 24 hours and more included, the timestamp string is exactly
\* H:MM:SS with H = floor(t / 3600) unpadded, MM and SS on two digits.
\* Fails on the code from 24 hours on: the string starts with the days.
C24_Format ==
    timing.timestamp # NoText
       => timing.timestamp = HMMSS(Truncate(timing.elapsed))

\* the clusters above the threshold of analyze_video_final
AboveFinal(sims) == {i \in 1..Len(sims) : sims[i] > FINAL_THRESHOLD}

\* C25: first-match scan.  In both scripts the clusters are compared in
\* creation order, the scan stops at the first one above the threshold, that
\* cluster (the lowest id above the threshold) alone gets the timestamp, and
\* no later cluster is compared.
C25_FirstMatch ==
    /\ (CleanStep /\ Above(obs.sims) # {})
         => LET m == Lowest(Above(obs.sims))
            IN  /\ FoldedInto(m)
                /\ obs.scan.best_match_index = m
                /\ obs.scan.compared = m
    /\ (variant = "final" /\ pc = "run" /\ obs.kind \in {"new", "dup"}
           /\ AboveFinal(obs.sims) # {})
         => LET m == Lowest(AboveFinal(obs.sims))
            IN  /\ obs.kind = "dup"
                /\ obs.scan.compared = m
                /\ face_timestamps =
                       [obs.before EXCEPT ![m] = Append(@, obs.ts)]

\* a face above the threshold for cluster 1 and more similar to cluster 2
C25_Witness ==
    /\ CleanStep /\ obs.sims = <<80, 90>>
    /\ obs.scan.compared = 1
    /\ detected_faces[2] = obs.before[2]
    /\ detected_faces[1] # obs.before[1]

\* C26: frame condition of one step.  A face changes at most one cluster,
\* the matched one or the one it appends; every other cluster keeps its image
\* name, quality and timestamps; a rejected face changes nothing.
C26_FrameCondition ==
    CleanFaceStep
    => LET n == Len(obs.before)
       IN  /\ obs.kind = "rejected" => detected_faces = obs.before
           /\ obs.kind = "dup"
                => /\ Len(detected_faces) = n
                   /\ \A j \in 1..n :
                          j # obs.scan.best_match_index
                             => detected_faces[j] = obs.before[j]
                   /\ \A j \in 1..n :
                          /\ detected_faces[j].image = obs.before[j].image
                          /\ detected_faces[j].quality = obs.before[j].quality
           /\ obs.kind = "new"
                => /\ Len(detected_faces) = n + 1
                   /\ SubSeq(detected_faces, 1, n) = obs.before

\* a duplicate of the second of two clusters, which alone has changed
C26_Witness ==
    /\ CleanStep /\ obs.kind = "dup" /\ obs.scan.best_match_index = 2
    /\ Len(obs.before) = 2
    /\ detected_faces[1] = obs.before[1]
    /\ detected_faces[2] # obs.before[2]

-----------------------------------------------------------------------------
(* C27 - C28: the two FaceProcessor scripts *)

\* the number a sequence of digit characters writes
DigitValue(c) == CHOOSE d \in 0..9 : Digits[d + 1] = c

RECURSIVE NumberOf(_)
NumberOf(text) ==
    IF text = <<>> THEN 0
    ELSE 10 * NumberOf(SubSeq(text, 1, Len(text) - 1))
           + DigitValue(text[Len(text)])

IsPrefix(a, b) == Len(a) <= Len(b) /\ SubSeq(b, 1, Len(a)) = a

\* C28: the two FaceProcessor variants make the same decisions.  On the
\* same encodings with the same threshold, both starting with no known face,
\* they classify every encoding identically, so after every step their
\* known-encoding lists and face counts are equal, a distance equal to the
\* threshold included.
C28_SameDecisions ==
    /\ IsPrefix(api.log, backend.log) \/ IsPrefix(backend.log, api.log)
    /\ api.frame = backend.frame
          => /\ api.log = backend.log
             /\ api.known_encodings = backend.known_face_encodings
             /\ api.face_count = backend.face_count

\* a second face at the threshold exactly, a third just beyond it
C28_Witness ==
    /\ video.frames = <<<<0, 60>>, <<61>>>>
    /\ api.threshold = 60
    /\ api.frame = 2 /\ backend.frame = 2
    /\ api.log = <<"new", "duplicate", "new">>
    /\ backend.known_face_encodings = <<0, 61>>

-----------------------------------------------------------------------------
(* C29: face_search *)

\* the file exists, an encoding can be extracted from it, and 1 - distance to
\* the search encoding is at least the threshold
Qualifies(face_image) ==
    LET file == search.store[FaceFile(face_image)]
    IN  /\ file.exists
        /\ file.load = "face"
        /\ 100 - file.distance >= search.threshold

\* C29: compare_faces returns the sub-list, in order, of the face images
\* whose file exists, gives an encoding and has 1 - distance >= threshold; a
\* missing file, an image without a face or an exception on one image skips
\* that image only, the remaining ones are still checked; so
\* matches_found <= total_faces_checked.
C29_Matches ==
    /\ search.matched_faces =
          SelectSeq(SubSeq(search.face_images, 1, search.checked), Qualifies)
    /\ search.pc = "done"
          => /\ search.checked = Len(search.face_images)
             /\ search.result.matched_faces =
                   SelectSeq(search.face_images, Qualifies)
             /\ search.result.total_faces_checked = Len(search.face_images)
             /\ search.result.matches_found = Len(search.result.matched_faces)
             /\ search.result.matches_found <= search.result.total_faces_checked

\* a first image that is skipped, a second whose similarity is the threshold
\* exactly and is returned
C29_Witness ==
    /\ search.pc = "done"
    /\ Len(search.face_images) = 2
    /\ ~Qualifies(search.face_images[1])
    /\ search.store[FaceFile(search.face_images[1])].load \in {"none", "raises"}
    /\ 100 - search.store[FaceFile(search.face_images[2])].distance =
          search.threshold
    /\ search.result.matched_faces = <<search.face_images[2]>>

-----------------------------------------------------------------------------
(* C30: cleanup *)

DirectoryNames == {"videos", "faces"}

\* the directory cleanup_old_files was or will be called on
Selected(d) ==
    \/ cleanup.args.all
    \/ d = "videos" /\ cleanup.args.videos
    \/ d = "faces" /\ cleanup.args.faces

\* a regular file whose age is strictly greater than max_age_hours * 3600
OldFile(entry) ==
    entry.kind = "file" /\ entry.age > cleanup.args.age * 3600

\* C30: cleanup_old_files removes only regular files directly inside the
\* directory whose age is strictly greater than max_age_hours * 3600 seconds;
\* files at or below that age, subdirectories and their contents stay
\* unchanged; a directory that does not exist causes no change; a removal
\* that fails does not stop the remaining files from being processed; main
\* without --videos, --faces and --all deletes nothing.
C30_Cleanup ==
    /\ \A d \in DirectoryNames :
          LET was == cleanup.before[d]
              now == disk[d]
          IN  /\ now.exists = was.exists
              /\ ~was.exists => now = was
              /\ ~Selected(d) => now = was
              /\ DOMAIN now.entries \subseteq DOMAIN was.entries
              /\ \A n \in DOMAIN now.entries : now.entries[n] = was.entries[n]
              /\ \A n \in DOMAIN was.entries :
                    /\ n \notin DOMAIN now.entries => OldFile(was.entries[n])
                    /\ ~OldFile(was.entries[n]) => n \in DOMAIN now.entries
              /\ cleanup.pc = "done" /\ Selected(d)
                    => \A n \in DOMAIN was.entries :
                          OldFile(was.entries[n]) /\ ~was.entries[n].locked
                             => n \notin DOMAIN now.entries
    /\ ~(cleanup.args.videos \/ cleanup.args.faces \/ cleanup.args.all)
          => disk = cleanup.before

\* --age 1: a first file whose removal failed and a second one, removed
\* after it; then the faces directory, where the file of one hour exactly
\* and the subdirectory stayed
C30_Witness ==
    /\ cleanup.pc = "done"
    /\ cleanup.args.age = 1
    /\ Len(cleanup.log) = 2
    /\ cleanup.log[1][1] = "Error removing" /\ cleanup.log[2][1] = "Removed"
    /\ Cardinality(DOMAIN disk.videos.entries) = 1
    /\ Selected("faces")
    /\ Len(disk.faces.entries) = 2

====
